---- MODULE Spec2Model ----
(***************************************************************************)
(* Roadmap progression engine of pathforge_backend.                        *)
(*                                                                         *)
(* The repository holds two copies of the roadmaps router:                 *)
(*   "api" : backend/api/routes/roadmaps.py      (mounted by backend/main.py)     *)
(*   "app" : backend/app/api/routes/roadmaps.py  (mounted by backend/app/main.py) *)
(* The variable `variant` says which copy serves the roadmap.  `db` is the *)
(* roadmap document held by the roadmaps collection, `last` the request    *)
(* served last together with its outcome, `now` the reading of the server  *)
(* clock (datetime.utcnow()) at the next request, `calls` the requests in  *)
(* flight, each with the document it read and the point it has reached,    *)
(* `twin` the document of a second roadmap, generated like the first, that *)
(* is sent the same requests with complete and skip exchanged.             *)
(*                                                                         *)
(* Sequences are 1-based here, while the code's list indices, the          *)
(* resources' `order` and current_module_index are 0-based: the module at  *)
(* position i has code index i - 1.  A module's id is its position, a      *)
(* resource's id is its position within its module.                        *)
(* progress_percentage is held in hundredths of a percent (5000 = 50.00),  *)
(* which is what round(progress, 2) keeps.                                 *)
(***************************************************************************)
EXTENDS Integers, Sequences, FiniteSets, TLC

VARIABLES variant, db, last, now, calls, twin

vars == <<variant, db, last, now, calls, twin>>

\* ---- bounds of the model ------------------------------------------------
MaxModules == 2
MaxResources == 2
MaxTotalResources == 3
MaxWeeks == 2

\* ---- program constants --------------------------------------------------
SecondsPerHour == 3600
ThresholdNum == 9
ThresholdDen == 10
DefaultProgress == 0
DefaultModuleIndex == 0
MaxRating == 5
MinRating == 1
SignificandBits == 53
DefaultWeeks == 12
FallbackHours == 10

Variants == {"api", "app"}

\* models.roadmap.ResourceStatus
ResourceStatus == {"locked", "unlocked", "in_progress", "completed", "skipped"}

\* estimated_hours values the Builder returns here (whole hours, so that
\* estimated_hours * 3600 and its product with 0.9 are exact in binary
\* floating point)
EstimatedHours == {0, 1}

\* threshold = estimated_hours * 3600 * 0.9; time_spent_seconds >= threshold
ReachesThreshold(time_spent_seconds, estimated_hours) ==
    ThresholdDen * time_spent_seconds >= ThresholdNum * (estimated_hours * SecondsPerHour)

\* time_spent_seconds values a client sends: zero, one second below the
\* threshold of a one-hour resource, and that threshold
TimeValues ==
    {0,
     (ThresholdNum * SecondsPerHour) \div ThresholdDen - 1,
     (ThresholdNum * SecondsPerHour) \div ThresholdDen}

\* users that send requests; the first one owns the roadmap
Users == {"u1", "u2"}
Owner == "u1"

\* the URLs the Builder gives to resources (resources may share a URL), and
\* one more that a client may send
Urls == {"url_a"}
OtherUrl == "url_x"

\* the ratings sent in this specification (RateResourceRequest: 1 <= rating <= 5)
Ratings == {MaxRating}

\* ---- initialization: generate_roadmap -----------------------------------

\* floor(log2(a / b)) for positive integers a and b
RECURSIVE FloorLog2(_, _)
FloorLog2(a, b) ==
    IF a >= b
    THEN IF a >= 2 * b THEN 1 + FloorLog2(a, 2 * b) ELSE 0
    ELSE FloorLog2(2 * a, b) - 1

RECURSIVE Pow2(_)
Pow2(n) == IF n = 0 THEN 1 ELSE 2 * Pow2(n - 1)

\* 2^k modulo n
RECURSIVE Pow2Mod(_, _)
Pow2Mod(k, n) == IF k = 0 THEN 1 % n ELSE (2 * Pow2Mod(k - 1, n)) % n

\* weeks_per_module = total_weeks / total_modules is a binary64 division: the
\* quotient is rounded to the nearest number M * 2^(-k) with a 53-bit M, where
\* k = 52 - floor(log2(total_weeks / total_modules)).  With
\* r = (total_weeks * 2^k) mod total_modules, the stored quotient is the exact
\* one plus QuotientError / (total_modules * 2^k): -r when rounded down,
\* total_modules - r when rounded up (no quotient of two integers below 2^26
\* is a tie).
QuotientError(total_weeks, total_modules) ==
    LET k == (SignificandBits - 1) - FloorLog2(total_weeks, total_modules)
        r == ((total_weeks % total_modules) * Pow2Mod(k, total_modules)) % total_modules
    IN  IF 2 * r < total_modules THEN 0 - r ELSE total_modules - r

\* int(idx * weeks_per_module): the binary64 product, rounded to nearest, then
\* truncated.  It is floor(idx * total_weeks / total_modules) unless that
\* quotient is a whole number F, weeks_per_module was rounded down, and the
\* product falls short of F by more than half the spacing of the binary64
\* numbers just below F (2^(m - 52), 2^m the largest power of two below F):
\* then the product rounds to a number below F and int() gives F - 1.
TruncatedProduct(idx, total_weeks, total_modules) ==
    LET F == (idx * total_weeks) \div total_modules
        error == QuotientError(total_weeks, total_modules)
        m == IF F = Pow2(FloorLog2(F, 1)) THEN FloorLog2(F, 1) - 1 ELSE FloorLog2(F, 1)
        shift == 1 + FloorLog2(total_weeks, total_modules) - m
        shortfall == idx * (0 - error) * (IF shift >= 0 THEN Pow2(shift) ELSE 1)
        half_spacing == total_modules * (IF shift < 0 THEN Pow2(0 - shift) ELSE 1)
    IN  IF idx = 0 \/ (idx * total_weeks) % total_modules # 0 \/ error >= 0
        THEN F
        ELSE IF shortfall > half_spacing THEN F - 1 ELSE F

\* current_week = int(idx * weeks_per_module) + 1, idx 0-based
WeekNumber(idx, total_weeks, total_modules) ==
    TruncatedProduct(idx, total_weeks, total_modules) + 1

\* is_week_start = (idx == 0 or current_week != previous_week)
IsWeekStart(idx, total_weeks, total_modules) ==
    \/ idx = 0
    \/ WeekNumber(idx, total_weeks, total_modules)
         # WeekNumber(idx - 1, total_weeks, total_modules)

\* LearningResource(...) as built by generate_roadmap
\* (a resource dict gets its ratings, rating and rating_count keys with its
\* first rating; before that they read as empty, 0 and 0)
NewResource(idx, r_idx, total_weeks, total_modules, hours, url) ==
    [status |-> IF IsWeekStart(idx, total_weeks, total_modules) /\ r_idx = 0
                THEN "unlocked" ELSE "locked",
     order |-> r_idx,
     url |-> url,
     estimated_hours |-> hours,
     time_spent_seconds |-> 0,
     ratings |-> << >>,
     rating |-> 0,
     rating_count |-> 0]

\* Module(...) as built by generate_roadmap
NewModule(idx, count, total_weeks, total_modules, hours, urls) ==
    [resources |-> [k \in 1..count |->
                      NewResource(idx, k - 1, total_weeks, total_modules, hours, urls[k])],
     week_number |-> WeekNumber(idx, total_weeks, total_modules),
     is_completed |-> FALSE]

RECURSIVE SumSeq(_)
SumSeq(s) == IF s = << >> THEN 0 ELSE Head(s) + SumSeq(Tail(s))

\* the module/resource trees the Builder returns: 1..MaxModules modules (an
\* empty modules list is refused before any document is built), each with
\* 0..MaxResources resources
Shapes ==
    UNION {{c \in [1..n -> 0..MaxResources] : SumSeq(c) <= MaxTotalResources}
           : n \in 1..MaxModules}

\* Roadmap(...) as inserted by generate_roadmap
GenerateRoadmap(counts, total_weeks, hours, urls) ==
    [user_id |-> Owner,
     modules |-> [i \in 1..Len(counts) |->
                    NewModule(i - 1, counts[i], total_weeks, Len(counts), hours, urls[i])],
     progress_percentage |-> DefaultProgress,
     current_module_index |-> DefaultModuleIndex]

\* ---- shared steps of the handlers (the two copies agree on them) ---------

\* the module and resource ids of the request resolve in the roadmap
Resolves(roadmap, module_id, resource_id) ==
    /\ module_id \in DOMAIN roadmap.modules
    /\ resource_id \in DOMAIN roadmap.modules[module_id].resources

\* (mutant of UnlockNextResource: the next resource is locked)
UnlockNextResource_Locks(roadmap, module_id, resource_id) ==
    LET resources == roadmap.modules[module_id].resources
        next_idx == resources[resource_id].order + 1
    IN  IF next_idx < Len(resources)
        THEN [roadmap EXCEPT !.modules[module_id].resources[next_idx + 1].status = "locked"]
        ELSE roadmap

\* next_idx = resource["order"] + 1; if next_idx < len(module["resources"]):
\*     module["resources"][next_idx]["status"] = "unlocked"
UnlockNextResource(roadmap, module_id, resource_id) ==
    LET resources == roadmap.modules[module_id].resources
        next_idx == resources[resource_id].order + 1
    IN  IF next_idx < Len(resources)
        THEN [roadmap EXCEPT !.modules[module_id].resources[next_idx + 1].status = "unlocked"]
        ELSE roadmap

\* resource["status"] = new_status, then the unlock of the next resource
MarkResource(roadmap, module_id, resource_id, new_status) ==
    UnlockNextResource(
        [roadmap EXCEPT !.modules[module_id].resources[resource_id].status = new_status],
        module_id, resource_id)

IsDone(resource) == resource.status \in {"completed", "skipped"}

\* module_completed of one module
ModuleCompleted(module) ==
    Cardinality({k \in DOMAIN module.resources : IsDone(module.resources[k])})

\* (mutant of AllDone: the module_total > 0 test is dropped)
AllDone_NoEmptyTest(module) ==
    ModuleCompleted(module) = Len(module.resources)

\* the condition under which recalculate_progress marks a module completed
AllDone(module) ==
    Len(module.resources) > 0 /\ ModuleCompleted(module) = Len(module.resources)

\* (mutant of UnlockFirstOfNext: a completed module opens nothing)
UnlockFirstOfNext_Never(modules, i) == modules

\* if idx + 1 < len(roadmap["modules"]): the next module's first resource,
\* when there is one and it is locked, becomes unlocked
UnlockFirstOfNext(modules, i) ==
    IF /\ i + 1 <= Len(modules)
       /\ Len(modules[i + 1].resources) > 0
       /\ modules[i + 1].resources[1].status = "locked"
    THEN [modules EXCEPT ![i + 1].resources[1].status = "unlocked"]
    ELSE modules

\* the first loop of recalculate_progress from position i on: the module's
\* flag, then the unlock of the next module's first resource
RECURSIVE RecalcModules(_, _)
RecalcModules(modules, i) ==
    IF i > Len(modules) THEN modules
    ELSE IF AllDone(modules[i])
    THEN RecalcModules(
           UnlockFirstOfNext([modules EXCEPT ![i].is_completed = TRUE], i), i + 1)
    ELSE RecalcModules([modules EXCEPT ![i].is_completed = FALSE], i + 1)

\* (mutant of Accessible: only a first resource that is unlocked or
\* in_progress counts, a completed module does not)
Accessible_OnlyOpen(module) ==
    /\ Len(module.resources) > 0
    /\ module.resources[1].status \in {"unlocked", "in_progress"}

\* module.get("is_completed") or (module["resources"] and
\*   module["resources"][0]["status"] in [unlocked, in_progress, completed, skipped])
Accessible(module) ==
    \/ module.is_completed
    \/ /\ Len(module.resources) > 0
       /\ module.resources[1].status \in {"unlocked", "in_progress", "completed", "skipped"}

\* the second loop of recalculate_progress: highest_accessible (0-based)
HighestAccessible(modules) ==
    LET idxs == {i - 1 : i \in {j \in DOMAIN modules : Accessible(modules[j])}}
    IN  IF idxs = {} THEN 0 ELSE CHOOSE x \in idxs : \A y \in idxs : y <= x

TotalResources(modules) == SumSeq([i \in DOMAIN modules |-> Len(modules[i].resources)])

CompletedResources(modules) == SumSeq([i \in DOMAIN modules |-> ModuleCompleted(modules[i])])

\* round(completed_resources / total_resources * 100, 2) in hundredths of a
\* percent (no value is a tie for fewer than 32 resources), 0 without resources
ProgressPercentage(modules) ==
    LET total == TotalResources(modules)
        completed == CompletedResources(modules)
    IN  IF total > 0
        THEN (2 * 100 * 100 * completed + total) \div (2 * total)
        ELSE 0

\* the ids recalculate_progress returns: modules it found completed whose
\* flag was not set when it started
NewlyCompleted(before, after) ==
    {i \in DOMAIN after : after[i].is_completed /\ ~before[i].is_completed}

\* the roadmap dict after the two loops of recalculate_progress
Recalculated(roadmap) ==
    LET modules == RecalcModules(roadmap.modules, 1)
    IN  [roadmap EXCEPT !.modules = modules,
                        !.current_module_index = HighestAccessible(modules)]

\* ---- what a handler does to the stored document --------------------------

\* no update_one is issued
NoWrite == << >>

\* {"$set": {"modules": roadmap["modules"], "updated_at": ...}}
SetModules(roadmap) == [modules |-> roadmap.modules]

\* update_one of the stored document with a $set of some fields
ApplySet(doc, set) ==
    [f \in DOMAIN doc |-> IF f \in DOMAIN set THEN set[f] ELSE doc[f]]

Outcome(code, set, auto_completed) ==
    [code |-> code, set |-> set, auto_completed |-> auto_completed]

\* ---- recalculate_progress ------------------------------------------------

\* api copy: the function returns before its update_one, and `progress` stays
\* a local; the caller holds the recalculated dict, nothing is stored here
recalculate_progress_api(roadmap) ==
    LET recalculated == Recalculated(roadmap)
    IN  [roadmap |-> recalculated,
         set |-> NoWrite,
         completed_module_ids |-> NewlyCompleted(roadmap.modules, recalculated.modules)]

\* app copy: update_one of modules, current_module_index, progress_percentage
recalculate_progress_app(roadmap) ==
    LET recalculated == Recalculated(roadmap)
    IN  [roadmap |-> recalculated,
         set |-> [modules |-> recalculated.modules,
                  current_module_index |-> recalculated.current_module_index,
                  progress_percentage |-> ProgressPercentage(recalculated.modules)],
         completed_module_ids |-> NewlyCompleted(roadmap.modules, recalculated.modules)]

\* ---- complete-resource and skip-resource ---------------------------------

\* api copy: recalculation in memory, then {"$set": roadmap_to_save}, the whole
\* dict as read and mutated (progress_percentage is the value that was read)
complete_resource_api(roadmap, module_id, resource_id) ==
    IF ~Resolves(roadmap, module_id, resource_id)
    THEN Outcome(404, NoWrite, FALSE)
    ELSE Outcome(200,
                 recalculate_progress_api(
                     MarkResource(roadmap, module_id, resource_id, "completed")).roadmap,
                 FALSE)

\* app copy: the only write is the one of recalculate_progress
complete_resource_app(roadmap, module_id, resource_id) ==
    IF ~Resolves(roadmap, module_id, resource_id)
    THEN Outcome(404, NoWrite, FALSE)
    ELSE Outcome(200,
                 recalculate_progress_app(
                     MarkResource(roadmap, module_id, resource_id, "completed")).set,
                 FALSE)

\* api copy; no `except HTTPException: raise`, so the 404 leaves as a 500
skip_resource_api(roadmap, module_id, resource_id) ==
    IF ~Resolves(roadmap, module_id, resource_id)
    THEN Outcome(500, NoWrite, FALSE)
    ELSE Outcome(200,
                 recalculate_progress_api(
                     MarkResource(roadmap, module_id, resource_id, "skipped")).roadmap,
                 FALSE)

\* app copy
skip_resource_app(roadmap, module_id, resource_id) ==
    IF ~Resolves(roadmap, module_id, resource_id)
    THEN Outcome(500, NoWrite, FALSE)
    ELSE Outcome(200,
                 recalculate_progress_app(
                     MarkResource(roadmap, module_id, resource_id, "skipped")).set,
                 FALSE)

\* the handler of the copy that serves the roadmap
complete_resource(v, roadmap, module_id, resource_id) ==
    IF v = "api"
    THEN complete_resource_api(roadmap, module_id, resource_id)
    ELSE complete_resource_app(roadmap, module_id, resource_id)

skip_resource(v, roadmap, module_id, resource_id) ==
    IF v = "api"
    THEN skip_resource_api(roadmap, module_id, resource_id)
    ELSE skip_resource_app(roadmap, module_id, resource_id)

\* ---- open-resource -------------------------------------------------------

\* (mutant of open_resource: the status test is dropped)
open_resource_AnyStatus(roadmap, module_id, resource_id) ==
    IF ~Resolves(roadmap, module_id, resource_id)
    THEN Outcome(500, NoWrite, FALSE)
    ELSE Outcome(200,
                 SetModules([roadmap EXCEPT
                     !.modules[module_id].resources[resource_id].status = "in_progress"]),
                 FALSE)

\* both copies: unlocked or in_progress becomes in_progress; modules are saved
open_resource(roadmap, module_id, resource_id) ==
    IF ~Resolves(roadmap, module_id, resource_id)
    THEN Outcome(500, NoWrite, FALSE)
    ELSE LET status == roadmap.modules[module_id].resources[resource_id].status
         IN  Outcome(200,
                     SetModules(
                       IF status \in {"unlocked", "in_progress"}
                       THEN [roadmap EXCEPT
                               !.modules[module_id].resources[resource_id].status = "in_progress"]
                       ELSE roadmap),
                     FALSE)

\* ---- update-time ---------------------------------------------------------

\* resource["time_spent_seconds"] = time_spent_seconds
WithTime(roadmap, module_id, resource_id, time_spent_seconds) ==
    [roadmap EXCEPT
       !.modules[module_id].resources[resource_id].time_spent_seconds = time_spent_seconds]

\* if time_spent_seconds >= threshold and resource["status"] != "completed"
AutoCompletes(roadmap, module_id, resource_id, time_spent_seconds) ==
    LET resource == roadmap.modules[module_id].resources[resource_id]
    IN  /\ ReachesThreshold(time_spent_seconds, resource.estimated_hours)
        /\ resource.status # "completed"

\* the else branch of the auto-complete rule reads
\* roadmap["modules"][module_idx + 1]["resources"][0] of a module without
\* resources: IndexError
AutoCompleteRaises(roadmap, module_id, resource_id) ==
    LET resources == roadmap.modules[module_id].resources
    IN  /\ ~(resources[resource_id].order + 1 < Len(resources))
        /\ module_id + 1 <= Len(roadmap.modules)
        /\ Len(roadmap.modules[module_id + 1].resources) = 0

\* the body of the auto-complete rule: completed, then either the next
\* resource unlocked or the module flagged and the next module's first
\* resource unlocked whatever its status
AutoComplete(roadmap, module_id, resource_id) ==
    LET resources == roadmap.modules[module_id].resources
        done == [roadmap EXCEPT
                   !.modules[module_id].resources[resource_id].status = "completed"]
    IN  IF resources[resource_id].order + 1 < Len(resources)
        THEN UnlockNextResource(done, module_id, resource_id)
        ELSE LET flagged == [done EXCEPT !.modules[module_id].is_completed = TRUE]
             IN  IF module_id + 1 <= Len(roadmap.modules)
                 THEN [flagged EXCEPT !.modules[module_id + 1].resources[1].status = "unlocked"]
                 ELSE flagged

\* api copy: `updated = True` sits inside the auto-complete branch, so a call
\* that does not auto-complete raises "Resource not found" (sent as a 500);
\* a call that does auto-complete recalculates in memory and stores nothing
update_time_spent_api(roadmap, module_id, resource_id, time_spent_seconds) ==
    IF ~Resolves(roadmap, module_id, resource_id)
    THEN Outcome(500, NoWrite, FALSE)
    ELSE IF ~AutoCompletes(roadmap, module_id, resource_id, time_spent_seconds)
    THEN Outcome(500, NoWrite, FALSE)
    ELSE IF AutoCompleteRaises(roadmap, module_id, resource_id)
    THEN Outcome(500, NoWrite, FALSE)
    ELSE Outcome(200,
                 recalculate_progress_api(
                     AutoComplete(WithTime(roadmap, module_id, resource_id, time_spent_seconds),
                                  module_id, resource_id)).set,
                 TRUE)

\* app copy: a plain time update saves the modules, an auto-completion is
\* saved by recalculate_progress
update_time_spent_app(roadmap, module_id, resource_id, time_spent_seconds) ==
    IF ~Resolves(roadmap, module_id, resource_id)
    THEN Outcome(500, NoWrite, FALSE)
    ELSE IF ~AutoCompletes(roadmap, module_id, resource_id, time_spent_seconds)
    THEN Outcome(200,
                 SetModules(WithTime(roadmap, module_id, resource_id, time_spent_seconds)),
                 FALSE)
    ELSE IF AutoCompleteRaises(roadmap, module_id, resource_id)
    THEN Outcome(500, NoWrite, FALSE)
    ELSE Outcome(200,
                 recalculate_progress_app(
                     AutoComplete(WithTime(roadmap, module_id, resource_id, time_spent_seconds),
                                  module_id, resource_id)).set,
                 TRUE)

update_time_spent(v, roadmap, module_id, resource_id, time_spent_seconds) ==
    IF v = "api"
    THEN update_time_spent_api(roadmap, module_id, resource_id, time_spent_seconds)
    ELSE update_time_spent_app(roadmap, module_id, resource_id, time_spent_seconds)

\* ---- rate-resource ---------------------------------------------------------

\* positions <<module, resource>> in the order the two loops visit them
Positions(roadmap) ==
    {p \in (DOMAIN roadmap.modules) \X (1..MaxResources + 1) :
        p[2] \in DOMAIN roadmap.modules[p[1]].resources}

Before(p, q) == p[1] < q[1] \/ (p[1] = q[1] /\ p[2] < q[2])

\* the resources whose url is resource_url
Matches(roadmap, resource_url) ==
    {p \in Positions(roadmap) :
        roadmap.modules[p[1]].resources[p[2]].url = resource_url}

\* the first of them, where the loops break
FirstMatch(roadmap, resource_url) ==
    CHOOSE p \in Matches(roadmap, resource_url) :
        \A q \in Matches(roadmap, resource_url) : q = p \/ Before(p, q)

\* (mutant of WithRating: the entry is appended whether or not the user has
\* rated before)
WithRating_AlwaysAppend(ratings, user_id, rating) ==
    Append(ratings, [user_id |-> user_id, rating |-> rating])

\* the entry of user_id replaced in place, or the new entry appended
WithRating(ratings, user_id, rating) ==
    IF \E i \in DOMAIN ratings : ratings[i].user_id = user_id
    THEN LET existing_rating ==
               CHOOSE i \in DOMAIN ratings :
                  /\ ratings[i].user_id = user_id
                  /\ \A j \in DOMAIN ratings : ratings[j].user_id = user_id => i <= j
         IN  [ratings EXCEPT ![existing_rating] = [user_id |-> user_id, rating |-> rating]]
    ELSE Append(ratings, [user_id |-> user_id, rating |-> rating])

\* round(total_rating / len(resource["ratings"]), 1), in tenths (no value is
\* a tie for fewer than 20 entries)
AverageRating(ratings) ==
    LET total_rating == SumSeq([i \in DOMAIN ratings |-> ratings[i].rating])
    IN  (2 * 10 * total_rating + Len(ratings)) \div (2 * Len(ratings))

\* both copies: the roadmap is looked up by id and user_id, the resource by
\* url; every HTTPException leaves as a 500; the modules are saved
rate_resource(roadmap, user_id, resource_url, rating) ==
    IF roadmap.user_id # user_id \/ Matches(roadmap, resource_url) = {}
    THEN Outcome(500, NoWrite, FALSE)
    ELSE LET p == FirstMatch(roadmap, resource_url)
             ratings == WithRating(roadmap.modules[p[1]].resources[p[2]].ratings,
                                   user_id, rating)
         IN  Outcome(200,
                     SetModules(
                       [roadmap EXCEPT
                          !.modules[p[1]].resources[p[2]].ratings = ratings,
                          !.modules[p[1]].resources[p[2]].rating = AverageRating(ratings),
                          !.modules[p[1]].resources[p[2]].rating_count = Len(ratings)]),
                     FALSE)

\* the clock reading of the first request; a resource that was never opened
\* has no opened_at, which reads as a smaller value than any clock reading
FirstInstant == 1
NotOpened == 0

\* ---- the state machine ---------------------------------------------------

\* ids a client sends: those of the roadmap and one that does not resolve
ModuleIds == 1..(Len(db.modules) + 1)

ResourceIds(module_id) ==
    IF module_id \in DOMAIN db.modules
    THEN 1..(Len(db.modules[module_id].resources) + 1)
    ELSE {1}

\* what `last` keeps of a request: the operation, the HTTP status of the
\* response and its auto_completed field (false where the response has none)
Response(op, outcome) ==
    [op |-> op, code |-> outcome.code, auto_completed |-> outcome.auto_completed]

\* one request served from read to write
Serve(op, outcome) ==
    LET served == outcome
    IN  /\ db' = ApplySet(db, served.set)
        /\ last' = Response(op, served)
        /\ UNCHANGED <<variant, now, calls, twin>>

CompleteResource ==
    \E module_id \in ModuleIds : \E resource_id \in ResourceIds(module_id) :
        Serve("complete", complete_resource(variant, db, module_id, resource_id))

SkipResource ==
    \E module_id \in ModuleIds : \E resource_id \in ResourceIds(module_id) :
        Serve("skip", skip_resource(variant, db, module_id, resource_id))

OpenResource ==
    \E module_id \in ModuleIds : \E resource_id \in ResourceIds(module_id) :
        Serve("open",
              open_resource(db, module_id, resource_id))

UpdateTime ==
    \E module_id \in ModuleIds : \E resource_id \in ResourceIds(module_id) :
      \E time_spent_seconds \in TimeValues :
        Serve("update_time",
              update_time_spent(variant, db, module_id, resource_id, time_spent_seconds))

RateResource ==
    \E user_id \in Users, resource_url \in Urls \cup {OtherUrl}, rating \in Ratings :
        Serve("rate", rate_resource(db, user_id, resource_url, rating))

NoRequest == [op |-> "generate", code |-> 200, auto_completed |-> FALSE]

\* no request is in flight: each request is served from read to write at once
NoCalls == << >>

\* no second roadmap is kept next to the first
NoTwin == << >>

Init ==
    /\ variant \in Variants
    /\ \E counts \in Shapes, total_weeks \in 1..MaxWeeks :
         \E estimated_hours \in EstimatedHours,
            urls \in [1..Len(counts) -> [1..MaxResources -> Urls]] :
            db = GenerateRoadmap(counts, total_weeks, estimated_hours, urls)
    /\ last = NoRequest
    /\ now = FirstInstant
    /\ calls = NoCalls
    /\ twin = NoTwin

Next ==
    \/ CompleteResource
    \/ SkipResource
    \/ OpenResource
    \/ UpdateTime
    \/ RateResource

Spec == Init /\ [][Next]_vars

\* ==== properties ==========================================================

\* the roadmap's resources, counted from their stored statuses
DoneCount == Cardinality({p \in Positions(db) : IsDone(db.modules[p[1]].resources[p[2]])})

ResourceCount == Cardinality(Positions(db))

\* every resource of the module at position i is completed or skipped, and
\* there is at least one
FullyDone(roadmap, i) ==
    /\ Len(roadmap.modules[i].resources) > 0
    /\ \A k \in DOMAIN roadmap.modules[i].resources :
          roadmap.modules[i].resources[k].status \in {"completed", "skipped"}

\* the step served complete-resource on (module_id, resource_id)
CompleteStep(module_id, resource_id) ==
    /\ last'.op = "complete"
    /\ LET outcome == complete_resource(variant, db, module_id, resource_id)
       IN  last' = Response("complete", outcome) /\ db' = ApplySet(db, outcome.set)

\* the step served skip-resource on (module_id, resource_id)
SkipStep(module_id, resource_id) ==
    /\ last'.op = "skip"
    /\ LET outcome == skip_resource(variant, db, module_id, resource_id)
       IN  last' = Response("skip", outcome) /\ db' = ApplySet(db, outcome.set)

\* the step served update-time on (module_id, resource_id) with the given time
UpdateTimeStep(module_id, resource_id, time_spent_seconds) ==
    /\ last'.op = "update_time"
    /\ LET outcome == update_time_spent(variant, db, module_id, resource_id,
                                        time_spent_seconds)
       IN  last' = Response("update_time", outcome) /\ db' = ApplySet(db, outcome.set)

\* C1: after every successful complete-resource, skip-resource or update-time
\* the stored progress_percentage is 100 * done / total (to the two decimals
\* that are stored), 0 for a roadmap without resources, and within 0..100.
C1_ProgressIsDoneOverTotal ==
    (last.op \in {"complete", "skip", "update_time"} /\ last.code = 200) =>
        /\ db.progress_percentage >= 0
        /\ db.progress_percentage <= 100 * 100
        /\ ResourceCount = 0 => db.progress_percentage = 0
        /\ ResourceCount > 0 =>
              /\ 2 * (ResourceCount * db.progress_percentage - 100 * 100 * DoneCount)
                    <= ResourceCount
              /\ 2 * (100 * 100 * DoneCount - ResourceCount * db.progress_percentage)
                    <= ResourceCount

\* C2: in every stored state a module's is_completed flag is set exactly when
\* the module has a resource and all its resources are completed or skipped.
C2_FlagIffAllDone ==
    \A i \in DOMAIN db.modules : db.modules[i].is_completed <=> FullyDone(db, i)

\* C2 witness: after an auto-completing update-time one module is flagged
\* while another module with a done resource is not.
C2_Witness ==
    /\ last.op = "update_time" /\ last.auto_completed
    /\ \E i, j \in DOMAIN db.modules :
          /\ db.modules[i].is_completed
          /\ ~db.modules[j].is_completed
          /\ \E k \in DOMAIN db.modules[j].resources : IsDone(db.modules[j].resources[k])

\* the 0-based indices of the modules that are completed or whose first
\* resource is unlocked, in_progress, completed or skipped
AccessibleIndices ==
    {i - 1 : i \in {j \in DOMAIN db.modules :
                      \/ db.modules[j].is_completed
                      \/ /\ Len(db.modules[j].resources) > 0
                         /\ db.modules[j].resources[1].status # "locked"}}

\* C3: in every stored state, the one written by generate_roadmap included,
\* current_module_index is the highest index of a module that is completed or
\* whose first resource is not locked.
C3_IndexIsHighestAccessible ==
    AccessibleIndices # {} =>
        /\ db.current_module_index \in AccessibleIndices
        /\ \A x \in AccessibleIndices : x <= db.current_module_index

\* C4: a complete-resource, skip-resource or update-time request never lowers
\* the stored current_module_index.
C4_IndexNeverDecreases ==
    [][last'.op \in {"complete", "skip", "update_time"} =>
          db'.current_module_index >= db.current_module_index]_vars

\* C4 witness: a completion has moved current_module_index past the first
\* module while the first module is still not completed.
C4_Witness ==
    /\ last.op \in {"complete", "skip", "update_time"} /\ last.code = 200
    /\ db.current_module_index > 0
    /\ ~db.modules[1].is_completed

\* the stored status of a resource
StatusOf(roadmap, module_id, resource_id) ==
    roadmap.modules[module_id].resources[resource_id].status

\* what the step changed in the module of the request, when the request was a
\* complete-resource (new_status completed) or skip-resource (skipped) on the
\* resource at order resource_id - 1
MarksAndUnlocksNext(module_id, resource_id, new_status) ==
    /\ last'.code = 200
    /\ StatusOf(db', module_id, resource_id) = new_status
    /\ \A k \in DOMAIN db.modules[module_id].resources :
          /\ (k = resource_id + 1 /\ StatusOf(db, module_id, k) = "locked")
                => StatusOf(db', module_id, k) = "unlocked"
          /\ (k < resource_id \/ k > resource_id + 1)
                => StatusOf(db', module_id, k) = StatusOf(db, module_id, k)

\* one module with two resources, the first unlocked and the second locked
ScenarioA(roadmap) ==
    /\ Len(roadmap.modules) = 1
    /\ Len(roadmap.modules[1].resources) = 2
    /\ StatusOf(roadmap, 1, 1) = "unlocked"
    /\ StatusOf(roadmap, 1, 2) = "locked"

\* C5: completing (skipping) the resource at order k stores it as completed
\* (skipped), unlocks a locked resource at order k+1 and leaves the statuses
\* at orders < k and > k+1 of the module alone; in scenario A, completing the
\* first resource leaves the second unlocked and the stored progress at 50.
C5_CompleteUnlocksOnlyNext ==
    [][\A module_id \in DOMAIN db.modules :
         \A resource_id \in DOMAIN db.modules[module_id].resources :
            /\ CompleteStep(module_id, resource_id)
                  => /\ MarksAndUnlocksNext(module_id, resource_id, "completed")
                     /\ (ScenarioA(db) /\ resource_id = 1)
                           => /\ StatusOf(db', 1, 2) = "unlocked"
                              /\ db'.progress_percentage = 50 * 100
            /\ SkipStep(module_id, resource_id)
                  => MarksAndUnlocksNext(module_id, resource_id, "skipped")]_vars

\* C6: complete-resource or skip-resource on the resource at order k leaves
\* the resource at order k+1 alone when that one is already in_progress,
\* completed or skipped.
C6_NextBeyondLockedIsKept ==
    [][\A module_id \in DOMAIN db.modules :
         \A resource_id \in DOMAIN db.modules[module_id].resources :
            (/\ CompleteStep(module_id, resource_id) \/ SkipStep(module_id, resource_id)
             /\ resource_id + 1 \in DOMAIN db.modules[module_id].resources
             /\ StatusOf(db, module_id, resource_id + 1)
                   \in {"in_progress", "completed", "skipped"})
            => StatusOf(db', module_id, resource_id + 1)
                  = StatusOf(db, module_id, resource_id + 1)]_vars

\* every resource of the first module is skipped, and there is one
FirstModuleSkipped ==
    /\ Len(db.modules[1].resources) > 0
    /\ \A k \in DOMAIN db.modules[1].resources : StatusOf(db, 1, k) = "skipped"

\* after a complete-resource or skip-resource, every module whose resources
\* are all done is flagged and the first resource of the module after it, if
\* there is one, is not locked
DoneModulesFlaggedAndNextOpen ==
    \A i \in DOMAIN db.modules :
        FullyDone(db, i) =>
            /\ db.modules[i].is_completed
            /\ (i + 1 \in DOMAIN db.modules /\ Len(db.modules[i + 1].resources) > 0)
                  => StatusOf(db, i + 1, 1) # "locked"

\* C7 as claimed: after a successful complete-resource or skip-resource a
\* module left fully done is flagged and the next module's first resource is
\* not locked; in a two-module roadmap whose first module is fully skipped
\* current_module_index is 1.
C7_Original ==
    (last.op \in {"complete", "skip"} /\ last.code = 200) =>
        /\ DoneModulesFlaggedAndNextOpen
        /\ (Len(db.modules) = 2 /\ FirstModuleSkipped) => db.current_module_index = 1

\* C7 as amended: the same, with current_module_index 1 only when the second
\* module has a resource, and 0 when it has none.
C7_DoneModuleOpensNext ==
    (last.op \in {"complete", "skip"} /\ last.code = 200) =>
        /\ DoneModulesFlaggedAndNextOpen
        /\ (Len(db.modules) = 2 /\ FirstModuleSkipped) =>
              db.current_module_index = IF Len(db.modules[2].resources) > 0 THEN 1 ELSE 0

\* C7 witness: scenario C, the skip that completes the first of two modules
\* has opened a second module that started locked.
C7_Witness ==
    /\ last.op = "skip" /\ last.code = 200
    /\ Len(db.modules) = 2 /\ FirstModuleSkipped
    /\ db.modules[1].is_completed
    /\ db.modules[2].week_number = db.modules[1].week_number
    /\ Len(db.modules[2].resources) > 0
    /\ StatusOf(db, 2, 1) = "unlocked"
    /\ db.current_module_index = 1

\* the condition of the auto-complete rule as the claim states it
\* (estimated seconds = estimated_hours * 3600)
AtLeastNinetyPercent(module_id, resource_id, time_spent_seconds) ==
    10 * time_spent_seconds
       >= 9 * (db.modules[module_id].resources[resource_id].estimated_hours * 3600)

ShouldAutoComplete(module_id, resource_id, time_spent_seconds) ==
    /\ AtLeastNinetyPercent(module_id, resource_id, time_spent_seconds)
    /\ StatusOf(db, module_id, resource_id) # "completed"

\* C8: update-time answers auto_completed = true exactly when the time is at
\* least 90% of the estimated seconds and the resource is not completed yet;
\* below that it answers auto_completed = false and keeps the status.
C8_AutoCompletedExactlyAtThreshold ==
    [][\A module_id \in DOMAIN db.modules :
         \A resource_id \in DOMAIN db.modules[module_id].resources :
            \A time_spent_seconds \in TimeValues :
               UpdateTimeStep(module_id, resource_id, time_spent_seconds) =>
                  /\ last'.code = 200
                  /\ last'.auto_completed
                        <=> ShouldAutoComplete(module_id, resource_id, time_spent_seconds)
                  /\ ~AtLeastNinetyPercent(module_id, resource_id, time_spent_seconds)
                        => StatusOf(db', module_id, resource_id)
                              = StatusOf(db, module_id, resource_id)]_vars

\* C9: when update-time answers auto_completed = true, the stored roadmap has
\* the resource completed with the new time, its module flagged if all its
\* resources are done, and the progress recomputed.
C9_AutoCompletionIsStored ==
    [][\A module_id \in DOMAIN db.modules :
         \A resource_id \in DOMAIN db.modules[module_id].resources :
            \A time_spent_seconds \in TimeValues :
               (/\ UpdateTimeStep(module_id, resource_id, time_spent_seconds)
                /\ last'.auto_completed)
               => /\ StatusOf(db', module_id, resource_id) = "completed"
                  /\ db'.modules[module_id].resources[resource_id].time_spent_seconds
                        = time_spent_seconds
                  /\ FullyDone(db', module_id) => db'.modules[module_id].is_completed
                  /\ db'.progress_percentage = ProgressPercentage(db'.modules)]_vars

\* the statuses, flags and aggregates of a roadmap
Progression(roadmap) ==
    [statuses |-> [i \in DOMAIN roadmap.modules |->
                     [k \in DOMAIN roadmap.modules[i].resources |-> StatusOf(roadmap, i, k)]],
     flags |-> [i \in DOMAIN roadmap.modules |-> roadmap.modules[i].is_completed],
     progress_percentage |-> roadmap.progress_percentage,
     current_module_index |-> roadmap.current_module_index]

\* C10: an update-time on a resource that resolves, with a time below the
\* threshold or on a completed resource, succeeds, stores exactly the given
\* time and changes no status, flag, progress or index.
C10_PlainTimeUpdateOnlyStoresTime ==
    [][\A module_id \in DOMAIN db.modules :
         \A resource_id \in DOMAIN db.modules[module_id].resources :
            \A time_spent_seconds \in TimeValues :
               (/\ UpdateTimeStep(module_id, resource_id, time_spent_seconds)
                /\ ~ShouldAutoComplete(module_id, resource_id, time_spent_seconds))
               => /\ last'.code = 200
                  /\ db'.modules[module_id].resources[resource_id].time_spent_seconds
                        = time_spent_seconds
                  /\ Progression(db') = Progression(db)]_vars

\* ==== open-resource with its timestamps ====================================

\* the clock readings of this specification
MaxInstant == 3

\* the document as stored, with the opened_at key of its resources
\* (LearningResource.opened_at defaults to None)
WithOpenedAt(roadmap) ==
    [roadmap EXCEPT !.modules =
        [i \in DOMAIN roadmap.modules |->
            [roadmap.modules[i] EXCEPT !.resources =
                [k \in DOMAIN roadmap.modules[i].resources |->
                    [f \in DOMAIN roadmap.modules[i].resources[k] \cup {"opened_at"} |->
                        IF f = "opened_at" THEN NotOpened
                        ELSE roadmap.modules[i].resources[k][f]]]]]]

OpenedAt(roadmap, module_id, resource_id) ==
    roadmap.modules[module_id].resources[resource_id].opened_at

\* if not resource.get("opened_at"): resource["opened_at"] = datetime.utcnow()
Stamped(roadmap, module_id, resource_id, instant) ==
    IF OpenedAt(roadmap, module_id, resource_id) = NotOpened
    THEN [roadmap EXCEPT !.modules[module_id].resources[resource_id].opened_at = instant]
    ELSE roadmap

\* opened_time of the response: the api copy assigns it only in the else
\* branch (the resource had an opened_at), the app copy after the if/else
OpenedTime(v, roadmap, module_id, resource_id, instant) ==
    IF v = "api"
    THEN OpenedAt(roadmap, module_id, resource_id)
    ELSE OpenedAt(Stamped(roadmap, module_id, resource_id, instant), module_id, resource_id)

\* open_resource with the timestamp it keeps and the response it returns:
\* {"opened_at": opened_time or None, "status": "in_progress"}
open_resource_timed(v, roadmap, module_id, resource_id, instant) ==
    IF ~Resolves(roadmap, module_id, resource_id)
    THEN [code |-> 500, set |-> NoWrite, opened_at |-> NotOpened, status |-> "none"]
    ELSE [code |-> 200,
          set |-> open_resource(Stamped(roadmap, module_id, resource_id, instant),
                                module_id, resource_id).set,
          opened_at |-> OpenedTime(v, roadmap, module_id, resource_id, instant),
          status |-> "in_progress"]

\* open-resource served at the instant `now`; the clock has moved on when the
\* next request arrives
OpenResourceTimed ==
    /\ now <= MaxInstant
    /\ \E module_id \in ModuleIds : \E resource_id \in ResourceIds(module_id) :
          LET served == open_resource_timed(variant, db, module_id, resource_id, now)
          IN  /\ db' = ApplySet(db, served.set)
              /\ last' = [op |-> "open", code |-> served.code, auto_completed |-> FALSE,
                          module_id |-> module_id, resource_id |-> resource_id,
                          opened_at |-> served.opened_at, status |-> served.status]
    /\ now' = now + 1
    /\ UNCHANGED <<variant, calls, twin>>

InitOpen ==
    /\ variant \in Variants
    /\ \E counts \in Shapes, total_weeks \in 1..MaxWeeks :
         \E estimated_hours \in EstimatedHours,
            urls \in [1..Len(counts) -> [1..MaxResources -> Urls]] :
            db = WithOpenedAt(GenerateRoadmap(counts, total_weeks, estimated_hours, urls))
    /\ last = NoRequest
    /\ now = FirstInstant
    /\ calls = NoCalls
    /\ twin = NoTwin

NextOpen ==
    \/ OpenResourceTimed
    \/ CompleteResource
    \/ SkipResource

SpecOpen == InitOpen /\ [][NextOpen]_vars

\* C11: two consecutive open-resource calls on one resource answer the same
\* status and the same opened_at, and the second leaves the stored opened_at
\* of the first alone.
C11_OpenTwiceAnswersTheSame ==
    [][(/\ last.op = "open" /\ last.code = 200
        /\ last'.op = "open"
        /\ last'.module_id = last.module_id
        /\ last'.resource_id = last.resource_id)
       => /\ last'.code = 200
          /\ last'.status = last.status
          /\ last'.opened_at = last.opened_at
          /\ OpenedAt(db', last.module_id, last.resource_id)
                = OpenedAt(db, last.module_id, last.resource_id)]_vars

\* the status open-resource leaves on a resource that had status `status`
AfterOpen(status) == IF status = "unlocked" THEN "in_progress" ELSE status

\* C12: a successful open-resource turns an unlocked target into in_progress
\* and keeps a target in any other status; the statuses of all other
\* resources, every is_completed flag, progress_percentage and
\* current_module_index are as before.
C12_OpenTouchesOnlyItsTarget ==
    [][(last'.op = "open" /\ last'.code = 200)
       => /\ StatusOf(db', last'.module_id, last'.resource_id)
                = AfterOpen(StatusOf(db, last'.module_id, last'.resource_id))
          /\ \A p \in Positions(db) :
                p # <<last'.module_id, last'.resource_id>>
                   => StatusOf(db', p[1], p[2]) = StatusOf(db, p[1], p[2])
          /\ Progression(db').flags = Progression(db).flags
          /\ db'.progress_percentage = db.progress_percentage
          /\ db'.current_module_index = db.current_module_index]_vars

\* C12 witness: the open just served was the first of its resource, which is
\* now in_progress, while a resource before it stays completed and one after
\* it stays locked.
C12_Witness ==
    /\ last.op = "open" /\ last.code = 200
    /\ StatusOf(db, last.module_id, last.resource_id) = "in_progress"
    /\ OpenedAt(db, last.module_id, last.resource_id) = now - 1
    /\ \E p, q \in Positions(db) :
          /\ Before(p, <<last.module_id, last.resource_id>>)
          /\ Before(<<last.module_id, last.resource_id>>, q)
          /\ StatusOf(db, p[1], p[2]) = "completed"
          /\ StatusOf(db, q[1], q[2]) = "locked"

\* the step served open-resource on (module_id, resource_id)
OpenStep(module_id, resource_id) ==
    /\ last'.op = "open"
    /\ LET outcome == open_resource(db, module_id, resource_id)
       IN  last' = Response("open", outcome) /\ db' = ApplySet(db, outcome.set)

\* the step served rate-resource for user_id on resource_url
RateStep(user_id, resource_url, rating) ==
    /\ last'.op = "rate"
    /\ LET outcome == rate_resource(db, user_id, resource_url, rating)
       IN  last' = Response("rate", outcome) /\ db' = ApplySet(db, outcome.set)

\* the outcome the claim gives to a request whose ids do not resolve
NotFoundAndNothingWritten == last'.code = 404 /\ db' = db

\* C13: open-resource, complete-resource, skip-resource, update-time and
\* rate-resource called with a module or resource id that does not resolve
\* (for rating: a roadmap that is not the user's, or a URL no resource has)
\* answer 404 and write nothing.
C13_UnresolvedIdsAnswer404 ==
    [][/\ \A module_id \in ModuleIds : \A resource_id \in ResourceIds(module_id) :
            ~Resolves(db, module_id, resource_id) =>
               /\ CompleteStep(module_id, resource_id) => NotFoundAndNothingWritten
               /\ SkipStep(module_id, resource_id) => NotFoundAndNothingWritten
               /\ OpenStep(module_id, resource_id) => NotFoundAndNothingWritten
               /\ \A time_spent_seconds \in TimeValues :
                     UpdateTimeStep(module_id, resource_id, time_spent_seconds)
                        => NotFoundAndNothingWritten
       /\ \A user_id \in Users, resource_url \in Urls \cup {OtherUrl}, rating \in Ratings :
            (user_id # db.user_id \/ Matches(db, resource_url) = {}) =>
               (RateStep(user_id, resource_url, rating) => NotFoundAndNothingWritten)]_vars

\* ==== update-time with any integer =========================================

\* time_spent_seconds is declared `int` and nothing narrows it: the values of
\* TimeValues and a negative one
SignedTimeValues == TimeValues \cup {0 - 1}

UpdateTimeSigned ==
    \E module_id \in ModuleIds : \E resource_id \in ResourceIds(module_id) :
      \E time_spent_seconds \in SignedTimeValues :
        Serve("update_time",
              update_time_spent(variant, db, module_id, resource_id, time_spent_seconds))

NextTime ==
    \/ UpdateTimeSigned
    \/ CompleteResource

SpecTime == Init /\ [][NextTime]_vars

\* C14: an update-time with a negative time_spent_seconds is rejected and
\* writes nothing, it never auto-completes, and no stored time_spent_seconds
\* is ever negative.
C14_NegativeTimeIsRejected ==
    [][/\ \A module_id \in DOMAIN db.modules :
            \A resource_id \in DOMAIN db.modules[module_id].resources :
               \A time_spent_seconds \in SignedTimeValues :
                  (/\ time_spent_seconds < 0
                   /\ UpdateTimeStep(module_id, resource_id, time_spent_seconds))
                  => /\ last'.code # 200
                     /\ ~last'.auto_completed
                     /\ db' = db
       /\ \A p \in Positions(db') :
            db'.modules[p[1]].resources[p[2]].time_spent_seconds >= 0]_vars

\* ==== rate-resource with several scores and URLs ===========================

\* the scores a client sends, two of them out of range
Scores == {MinRating - 1, MinRating, 3, MaxRating, MaxRating + 1}

\* RateResourceRequest: rating = Field(..., ge=1, le=5); a body that fails
\* the validation is answered 422 before rate_resource runs
ValidRating(rating) == rating >= MinRating /\ rating <= MaxRating

rate_resource_validated(roadmap, user_id, resource_url, rating) ==
    IF ValidRating(rating)
    THEN rate_resource(roadmap, user_id, resource_url, rating)
    ELSE Outcome(422, NoWrite, FALSE)

\* the URLs of the resources; two resources may or may not share one
RatedUrls == {"url_a", "url_b"}

\* the score user_id has on the list, 0 when the user has none
ScoreOf(ratings, user_id) ==
    IF \E i \in DOMAIN ratings : ratings[i].user_id = user_id
    THEN ratings[CHOOSE i \in DOMAIN ratings : ratings[i].user_id = user_id].rating
    ELSE 0

\* rate-resource served; `last` keeps the resource that was rated, the score
\* sent and the score the user had on it before
RateResourceScored ==
    \E user_id \in Users, resource_url \in RatedUrls \cup {OtherUrl}, rating \in Scores :
        LET served == rate_resource_validated(db, user_id, resource_url, rating)
            found == served.code = 200
            p == IF found THEN FirstMatch(db, resource_url) ELSE <<0, 0>>
        IN  /\ db' = ApplySet(db, served.set)
            /\ last' = [op |-> "rate", code |-> served.code, auto_completed |-> FALSE,
                        position |-> p, rating |-> rating,
                        previous |-> IF found
                                     THEN ScoreOf(db.modules[p[1]].resources[p[2]].ratings,
                                                  user_id)
                                     ELSE 0]
            /\ UNCHANGED <<variant, now, calls, twin>>

InitRate ==
    /\ variant \in Variants
    /\ \E counts \in Shapes, total_weeks \in 1..MaxWeeks :
         \E estimated_hours \in EstimatedHours,
            urls \in [1..Len(counts) -> [1..MaxResources -> RatedUrls]] :
            db = GenerateRoadmap(counts, total_weeks, estimated_hours, urls)
    /\ last = NoRequest
    /\ now = FirstInstant
    /\ calls = NoCalls
    /\ twin = NoTwin

NextRate ==
    \/ RateResourceScored
    \/ OpenResource

SpecRate == InitRate /\ [][NextRate]_vars

\* the entries of a resource's ratings list agree with its aggregate: one
\* entry per user at most, scores within 1..5, rating_count the number of
\* entries, rating their mean (to the one decimal that is stored, in tenths)
RatingsAgree(resource) ==
    LET ratings == resource.ratings
        total == SumSeq([i \in DOMAIN ratings |-> ratings[i].rating])
    IN  /\ \A i, j \in DOMAIN ratings : ratings[i].user_id = ratings[j].user_id => i = j
        /\ \A i \in DOMAIN ratings :
              ratings[i].rating >= MinRating /\ ratings[i].rating <= MaxRating
        /\ resource.rating_count = Len(ratings)
        /\ Len(ratings) > 0 =>
              /\ 2 * (Len(ratings) * resource.rating - 10 * total) <= Len(ratings)
              /\ 2 * (10 * total - Len(ratings) * resource.rating) <= Len(ratings)

MaxGenModules == 22
MaxGenWeeks == 30

\* the roadmaps collection before the insert
NoRoadmap == << >>

\* no request served yet
Idle == [op |-> "none", code |-> 0, auto_completed |-> FALSE]

\* the module/resource trees of this specification: those of Shapes and
\* longer lists of one-resource modules
GenShapes == Shapes \cup {[i \in 1..n |-> 1] : n \in 1..MaxGenModules}

\* what the chat completion does: it raises, or it answers a JSON object
\* whose modules list is missing or empty, or one with modules
BuilderOutcomes ==
    {[kind |-> "error", counts |-> << >>], [kind |-> "no_modules", counts |-> << >>]}
    \cup {[kind |-> "modules", counts |-> c] : c \in GenShapes}

\* the except branch of generate_learning_roadmap: one module with one
\* resource of 10 estimated hours
FallbackStructure == [counts |-> <<1>>, hours |-> FallbackHours, fallback |-> TRUE]

\* AIService.generate_learning_roadmap: ValueError on a result without
\* modules, and every exception answered with the fallback structure
generate_learning_roadmap(outcome, hours) ==
    IF outcome.kind = "error" \/ outcome.counts = << >>
    THEN FallbackStructure
    ELSE [counts |-> outcome.counts, hours |-> hours, fallback |-> FALSE]

\* generate_roadmap from the Builder call on: 500 when roadmap_data has no
\* modules, else the document that insert_one stores
\* (total_weeks = deadline_weeks or 12)
generate_roadmap(outcome, deadline_weeks, hours) ==
    LET roadmap_data == generate_learning_roadmap(outcome, hours)
        total_weeks == IF deadline_weeks = 0 THEN DefaultWeeks ELSE deadline_weeks
    IN  IF roadmap_data.counts = << >>
        THEN [code |-> 500, inserted |-> NoRoadmap, total_weeks |-> total_weeks]
        ELSE [code |-> 200,
              inserted |-> GenerateRoadmap(
                             roadmap_data.counts, total_weeks, roadmap_data.hours,
                             [i \in 1..Len(roadmap_data.counts) |->
                                [k \in 1..MaxResources |-> CHOOSE u \in Urls : TRUE]]),
              total_weeks |-> total_weeks]

\* POST /generate; `last` keeps what the Builder did and the total_weeks used
GenerateRoadmapRequest ==
    /\ db = NoRoadmap
    /\ \E outcome \in BuilderOutcomes, deadline_weeks \in 0..MaxGenWeeks,
          hours \in EstimatedHours :
          LET served == generate_roadmap(outcome, deadline_weeks, hours)
          IN  /\ db' = served.inserted
              /\ last' = [op |-> "generate", code |-> served.code, auto_completed |-> FALSE,
                          builder |-> outcome.kind, total_weeks |-> served.total_weeks]
    /\ UNCHANGED <<variant, now, calls, twin>>

InitGenerate ==
    /\ variant \in Variants
    /\ db = NoRoadmap
    /\ last = Idle
    /\ now = FirstInstant
    /\ calls = NoCalls
    /\ twin = NoTwin

NextGenerate == GenerateRoadmapRequest

SpecGenerate == InitGenerate /\ [][NextGenerate]_vars

\* the week the claim gives to the module at 0-based index idx
ClaimedWeek(idx, total_weeks, total_modules) ==
    ((idx * total_weeks) \div total_modules) + 1

\* C16: right after generation with N modules and W weeks, module i has week
\* floor(i * W / N) + 1; a resource is unlocked exactly when its order is 0
\* and its module is a week start (i = 0 or a week number other than that of
\* module i - 1), and locked otherwise; no module is completed and every
\* time_spent_seconds is 0.
C16_GeneratedWeeksAndLocks ==
    (last.op = "generate" /\ last.code = 200) =>
        \A i \in DOMAIN db.modules :
            /\ db.modules[i].week_number
                  = ClaimedWeek(i - 1, last.total_weeks, Len(db.modules))
            /\ ~db.modules[i].is_completed
            /\ \A k \in DOMAIN db.modules[i].resources :
                  /\ db.modules[i].resources[k].time_spent_seconds = 0
                  /\ StatusOf(db, i, k) =
                        IF /\ db.modules[i].resources[k].order = 0
                           /\ \/ i = 1
                              \/ db.modules[i].week_number # db.modules[i - 1].week_number
                        THEN "unlocked" ELSE "locked"

\* ==== requests in flight ==================================================
\* A handler awaits the collection and the Summary Generator; between two
\* awaits the event loop may run a step of another request.  A request is
\* received and reads the document (find_one), summarises the modules its
\* recalculation completed (generate_module_summary), stores (update_one) and
\* answers.

\* the browser tabs that send one request each
Tabs == {"tab1", "tab2"}

\* the operations sent
CallOps == {"complete", "skip", "open", "update_time"}

\* a text is a sequence of characters; str.strip() drops the white space at
\* both ends
RECURSIVE LStrip(_)
LStrip(text) ==
    IF text # << >> /\ Head(text) = " " THEN LStrip(Tail(text)) ELSE text

RECURSIVE RStrip(_)
RStrip(text) ==
    IF text # << >> /\ text[Len(text)] = " "
    THEN RStrip(SubSeq(text, 1, Len(text) - 1))
    ELSE text

Strip(text) == LStrip(RStrip(text))

\* the longest message content of a chat completion
MaxContent == 2

\* message contents: texts of letters and blanks, the empty text among them
Contents == UNION {[1..n -> {"a", " "}] : n \in 0..MaxContent}

\* what chat.completions.create does: it raises, or it answers with a message
\* whose content is None, or with a message that has a text content
UpstreamOutcomes ==
    {[kind |-> "error", content |-> << >>], [kind |-> "no_content", content |-> << >>]}
        \cup {[kind |-> "content", content |-> c] : c \in Contents}

\* "Great job completing this module! Keep up the excellent work on your
\* learning journey.", held by its first word
FallbackSummary == <<"G", "r", "e", "a", "t">>

\* (mutant of generate_module_summary: no except clause, the error leaves)
generate_module_summary_NoExcept(upstream) ==
    IF upstream.kind = "content"
    THEN [raised |-> FALSE, summary |-> Strip(upstream.content)]
    ELSE [raised |-> TRUE, summary |-> << >>]

\* AIService.generate_module_summary: the stripped content; an exception of
\* the call, or of None.strip(), is caught and the fixed sentence returned
generate_module_summary(upstream) ==
    IF upstream.kind = "content"
    THEN [raised |-> FALSE, summary |-> Strip(upstream.content)]
    ELSE [raised |-> FALSE, summary |-> FallbackSummary]

Request(op, module_id, resource_id, time_spent_seconds) ==
    [op |-> op, module_id |-> module_id, resource_id |-> resource_id,
     time_spent_seconds |-> time_spent_seconds]

\* the handler of a request, run on the document the request read
Handle(v, roadmap, request) ==
    CASE request.op = "complete" ->
            complete_resource(v, roadmap, request.module_id, request.resource_id)
      [] request.op = "skip" ->
            skip_resource(v, roadmap, request.module_id, request.resource_id)
      [] request.op = "open" ->
            open_resource(roadmap, request.module_id, request.resource_id)
      [] request.op = "update_time" ->
            update_time_spent(v, roadmap, request.module_id, request.resource_id,
                              request.time_spent_seconds)

\* newly_completed_modules of complete_resource and skip_resource; the other
\* handlers call no Summary Generator
SummarisedModules(v, roadmap, request) ==
    IF /\ request.op \in {"complete", "skip"}
       /\ Resolves(roadmap, request.module_id, request.resource_id)
    THEN LET marked == MarkResource(roadmap, request.module_id, request.resource_id,
                                    IF request.op = "complete"
                                    THEN "completed" ELSE "skipped")
         IN  IF v = "api"
             THEN recalculate_progress_api(marked).completed_module_ids
             ELSE recalculate_progress_app(marked).completed_module_ids
    ELSE {}

\* app copy: the update_one is the one inside recalculate_progress, ahead of
\* the summaries; api copy: recalculate_progress stores nothing and the
\* update_one of complete_resource and skip_resource follows the summaries
StoresBeforeSummaries(v) == v = "app"

\* (mutant of WriteAccepted: the write is refused when the stored document is
\* no longer the one that was read)
WriteAccepted_IfUnchanged(stored, snapshot) == stored = snapshot

\* update_one({"_id": ...}, {"$set": ...}): the filter names the document
\* only, whatever it holds by now
WriteAccepted(stored, snapshot) == TRUE

\* a tab that has sent nothing
IdleCall ==
    [pc |-> "idle", request |-> Request("none", 0, 0, 0), snapshot |-> NoRoadmap,
     pending |-> {}, written |-> FALSE, stale |-> FALSE, code |-> 0,
     upstream |-> "none", summary |-> << >>]

\* the request arrives and find_one returns the document; a request the
\* handler refuses is answered at once
Receive(tab) ==
    /\ calls[tab].pc = "idle"
    /\ \E op \in CallOps, module_id \in ModuleIds :
         \E resource_id \in ResourceIds(module_id), time_spent_seconds \in TimeValues :
            /\ op # "update_time" => time_spent_seconds = 0
            /\ LET request == Request(op, module_id, resource_id, time_spent_seconds)
                   outcome == Handle(variant, db, request)
               IN  calls' = [calls EXCEPT ![tab] =
                      IF outcome.code # 200
                      THEN [IdleCall EXCEPT !.pc = "done", !.request = request,
                                            !.code = outcome.code]
                      ELSE [IdleCall EXCEPT !.pc = "read", !.request = request,
                                            !.snapshot = db,
                                            !.pending =
                                                SummarisedModules(variant, db, request)]]
    /\ UNCHANGED <<variant, db, last, now, twin>>

\* one pass of `for completed_module_id in newly_completed_modules`: the
\* Summary Generator is called for the next module; an exception that leaves
\* it ends the request with a 500
Summarise(tab) ==
    LET call == calls[tab]
    IN  /\ call.pc = "read"
        /\ call.pending # {}
        /\ call.written \/ ~StoresBeforeSummaries(variant)
        /\ \E upstream \in UpstreamOutcomes :
              LET module_id == CHOOSE m \in call.pending : \A o \in call.pending : m <= o
                  returned == generate_module_summary(upstream)
                  pending == call.pending \ {module_id}
              IN  calls' = [calls EXCEPT ![tab] =
                     IF returned.raised
                     THEN [call EXCEPT !.pc = "done", !.code = 500,
                                       !.upstream = upstream.kind]
                     ELSE [call EXCEPT !.pending = pending,
                                       !.upstream = upstream.kind,
                                       !.summary = returned.summary,
                                       !.code = IF call.written THEN 200 ELSE @,
                                       !.pc = IF call.written /\ pending = {}
                                              THEN "done" ELSE "read"]]
        /\ UNCHANGED <<variant, db, last, now, twin>>

\* the update_one of the request, computed from the document it read
Persist(tab) ==
    LET call == calls[tab]
    IN  /\ call.pc = "read"
        /\ ~call.written
        /\ call.pending = {} \/ StoresBeforeSummaries(variant)
        /\ LET outcome == Handle(variant, call.snapshot, call.request)
           IN  /\ db' = IF WriteAccepted(db, call.snapshot)
                        THEN ApplySet(db, outcome.set)
                        ELSE db
               /\ calls' = [calls EXCEPT ![tab] =
                     [call EXCEPT !.written = TRUE,
                                  !.stale = (db # call.snapshot),
                                  !.snapshot = NoRoadmap,
                                  !.code = IF call.pending = {} THEN outcome.code ELSE @,
                                  !.pc = IF call.pending = {} THEN "done" ELSE "read"]]
        /\ UNCHANGED <<variant, last, now, twin>>

InitCalls ==
    /\ variant \in Variants
    /\ \E counts \in Shapes, total_weeks \in 1..MaxWeeks :
         \E estimated_hours \in EstimatedHours,
            urls \in [1..Len(counts) -> [1..MaxResources -> Urls]] :
            db = GenerateRoadmap(counts, total_weeks, estimated_hours, urls)
    /\ last = NoRequest
    /\ now = FirstInstant
    /\ calls = [tab \in Tabs |-> IdleCall]
    /\ twin = NoTwin

NextCalls ==
    \E tab \in Tabs :
        \/ Receive(tab)
        \/ Summarise(tab)
        \/ Persist(tab)

SpecCalls == InitCalls /\ [][NextCalls]_vars

\* the step in which the request of `tab` issues its update_one
PersistStep(tab) ==
    /\ calls[tab].pc = "read"
    /\ ~calls[tab].written
    /\ calls'[tab].written

\* C17: no write is refused for being stale: whatever was stored since the
\* request read the document, its update_one replaces the stored fields by
\* those computed from the document it read, and the request reports success.
\* (The interleaving in which this loses the mutation of the request that
\* wrote first is C17_LostUpdate.)
C17_StaleWriteIsApplied ==
    [][\A tab \in Tabs :
          PersistStep(tab)
          => /\ db' = ApplySet(db, Handle(variant, calls[tab].snapshot,
                                          calls[tab].request).set)
             /\ calls'[tab].pc = "done" => calls'[tab].code = 200]_vars

\* both tabs were answered with success, the second write came from a
\* document read before the first write, and the resource the first request
\* completed is not completed in the stored document
C17_LostUpdate ==
    \E first \in Tabs, second \in Tabs :
        /\ first # second
        /\ calls[first].pc = "done" /\ calls[first].code = 200
        /\ calls[second].pc = "done" /\ calls[second].code = 200
        /\ calls[first].written /\ ~calls[first].stale
        /\ calls[second].written /\ calls[second].stale
        /\ calls[first].request.op = "complete"
        /\ StatusOf(db, calls[first].request.module_id,
                    calls[first].request.resource_id) # "completed"

\* the step in which the request of `tab` calls the Summary Generator
SummariseStep(tab) ==
    /\ calls[tab].pc = "read"
    /\ calls[tab].pending # {}
    /\ calls'[tab].upstream # "none"
    /\ calls'[tab] # calls[tab]
    /\ calls'[tab].written = calls[tab].written

\* C18: when complete-resource or skip-resource calls the Summary Generator
\* for a newly completed module, the request has already issued the
\* update_one that stores its statuses, flags and current_module_index.
C18_StoredBeforeSummary ==
    [][\A tab \in Tabs : SummariseStep(tab) => calls[tab].written]_vars

\* a message content without any character other than white space
Blank(content) == \A i \in DOMAIN content : content[i] = " "

\* a call of the Summary Generator leaves the stored document alone and the
\* request goes on: it is answered with 200 when this was its last step
SummaryLeavesRequestAlone(tab) ==
    /\ db' = db
    /\ calls'[tab].pc \in {"read", "done"}
    /\ calls'[tab].pc = "done" => calls'[tab].code = 200

\* what a request stores after its summaries is what its handler computed
\* from the document it read, and it is answered with 200
StoresWhatWasComputed(tab) ==
    /\ Progression(db')
         = Progression(ApplySet(db, Handle(variant, calls[tab].snapshot,
                                           calls[tab].request).set))
    /\ calls'[tab].code = 200

\* C19 as stated: a failing Summary Generator neither fails the request nor
\* changes what is stored, and every summary returned is a non-empty string.
C19_Original ==
    [][\A tab \in Tabs :
          /\ SummariseStep(tab)
             => /\ SummaryLeavesRequestAlone(tab)
                /\ calls'[tab].summary # << >>
          /\ (PersistStep(tab) /\ calls[tab].upstream # "none")
             => StoresWhatWasComputed(tab)]_vars

\* C19: a failing Summary Generator neither fails the request nor changes
\* what is stored; the summary returned is the fixed sentence when the
\* upstream call raises or answers without content, and it is the empty
\* string exactly when the upstream content is blank.
C19_SummaryFailureIsHarmless ==
    [][\A tab \in Tabs :
          /\ SummariseStep(tab)
             => /\ SummaryLeavesRequestAlone(tab)
                /\ calls'[tab].upstream \in {"error", "no_content"}
                   => calls'[tab].summary = FallbackSummary
                /\ \A upstream \in UpstreamOutcomes :
                      generate_module_summary(upstream).summary = << >>
                      <=> (upstream.kind = "content" /\ Blank(upstream.content))
          /\ (PersistStep(tab) /\ calls[tab].upstream # "none")
             => StoresWhatWasComputed(tab)]_vars

\* a request whose summary call failed upstream was answered with 200 and
\* the module it finished is stored as completed
C19_Witness ==
    \E tab \in Tabs :
        /\ calls[tab].pc = "done" /\ calls[tab].code = 200
        /\ calls[tab].upstream = "error"
        /\ calls[tab].summary = FallbackSummary
        /\ calls[tab].written
        /\ calls[tab].request.op \in {"complete", "skip"}
        /\ db.modules[calls[tab].request.module_id].is_completed

\* C20: when the AI Roadmap Builder errors or answers with a structure whose
\* modules list is empty or missing, the generate request fails and no
\* roadmap document is inserted.
C20_BuilderFailureFailsGenerate ==
    (last.op = "generate" /\ last.builder \in {"error", "no_modules"})
        => /\ last.code # 200
           /\ db = NoRoadmap

\* ==== repeated and out-of-order requests ===================================

\* C21: complete-resource on a resource that is already completed, and
\* skip-resource on one that is already skipped, change no resource status,
\* no is_completed flag, nor progress_percentage or current_module_index.
C21_RepeatedCompleteOrSkipChangesNothing ==
    [][\A module_id \in DOMAIN db.modules :
         \A resource_id \in DOMAIN db.modules[module_id].resources :
            /\ (/\ StatusOf(db, module_id, resource_id) = "completed"
                /\ CompleteStep(module_id, resource_id))
               => Progression(db') = Progression(db)
            /\ (/\ StatusOf(db, module_id, resource_id) = "skipped"
                /\ SkipStep(module_id, resource_id))
               => Progression(db') = Progression(db)]_vars

\* C22: whenever an operation changes the first resource of module i + 1
\* from locked to unlocked, every resource of module i is completed or
\* skipped in the state that operation stores.
C22_NextModuleOpensOnlyAfterDoneModule ==
    [][\A i \in DOMAIN db.modules :
          (/\ i + 1 \in DOMAIN db.modules
           /\ Len(db.modules[i + 1].resources) > 0
           /\ StatusOf(db, i + 1, 1) = "locked"
           /\ StatusOf(db', i + 1, 1) = "unlocked")
          => FullyDone(db', i)]_vars

\* ==== complete and skip exchanged ==========================================
\* Two roadmaps generated alike are sent the same requests one after another,
\* except that a complete-resource sent to the first may be a skip-resource
\* on the same resource for the second, and the reverse.  The requests name
\* resources of the roadmap.

\* the stored document after the request was served on it
Served(v, roadmap, request) == ApplySet(roadmap, Handle(v, roadmap, request).set)

\* what is compared of the two roadmaps: which resources are done, which are
\* locked, the flags and the aggregates
DonePattern(roadmap) ==
    [done |-> {p \in Positions(roadmap) : IsDone(roadmap.modules[p[1]].resources[p[2]])},
     locked |-> {p \in Positions(roadmap) : StatusOf(roadmap, p[1], p[2]) = "locked"},
     flags |-> [i \in DOMAIN roadmap.modules |-> roadmap.modules[i].is_completed],
     progress_percentage |-> roadmap.progress_percentage,
     current_module_index |-> roadmap.current_module_index]

\* the two roadmaps compare alike; the comparison ends at the first difference
AlikeSoFar == DonePattern(db) = DonePattern(twin)

Exchanged(op) == IF op = "complete" THEN "skip" ELSE "complete"

\* complete-resource or skip-resource on `db`, the same or the other of the
\* two on `twin`
TwinCompleteOrSkip ==
    \E op \in {"complete", "skip"}, exchange \in BOOLEAN, p \in Positions(db) :
        /\ AlikeSoFar
        /\ db' = Served(variant, db, Request(op, p[1], p[2], 0))
        /\ twin' = Served(variant, twin,
                          Request(IF exchange THEN Exchanged(op) ELSE op, p[1], p[2], 0))
        /\ UNCHANGED <<variant, last, now, calls>>

TwinOpen ==
    \E p \in Positions(db) :
        LET request == Request("open", p[1], p[2], 0)
        IN  /\ AlikeSoFar
            /\ db' = Served(variant, db, request)
            /\ twin' = Served(variant, twin, request)
            /\ UNCHANGED <<variant, last, now, calls>>

TwinUpdateTime ==
    \E p \in Positions(db), time_spent_seconds \in TimeValues :
        LET request == Request("update_time", p[1], p[2], time_spent_seconds)
        IN  /\ AlikeSoFar
            /\ db' = Served(variant, db, request)
            /\ twin' = Served(variant, twin, request)
            /\ UNCHANGED <<variant, last, now, calls>>

InitTwin ==
    /\ variant \in Variants
    /\ \E counts \in Shapes, total_weeks \in 1..MaxWeeks :
         \E estimated_hours \in EstimatedHours,
            urls \in [1..Len(counts) -> [1..MaxResources -> Urls]] :
            db = GenerateRoadmap(counts, total_weeks, estimated_hours, urls)
    /\ twin = db
    /\ last = NoRequest
    /\ now = FirstInstant
    /\ calls = NoCalls

NextTwin ==
    \/ TwinCompleteOrSkip
    \/ TwinOpen
    \/ TwinUpdateTime

SpecTwin == InitTwin /\ [][NextTwin]_vars

\* C23: after any sequence of requests the two roadmaps have the same done
\* resources, the same locked resources, the same is_completed flags, the
\* same progress_percentage and the same current_module_index.
C23_CompleteAndSkipAreInterchangeable ==
    AlikeSoFar

\* ==== templates ============================================================
\* scripts/seed_templates.py inserts template roadmaps, and the api router
\* clones one for a user.  In this specification `db` is the roadmap document
\* that was written last.

\* a resource as seed_roadmap_templates builds it
TemplateResource ==
    [url |-> CHOOSE u \in Urls : TRUE, status |-> "not_started", rating |-> 0,
     time_spent_seconds |-> 0, completed |-> FALSE]

\* roadmap_doc of seed_roadmap_templates for a template with the given
\* numbers of resources per module
seed_roadmap_templates(counts) ==
    [user_id |-> "admin", is_template |-> TRUE,
     progress_percentage |-> DefaultProgress,
     current_module_index |-> DefaultModuleIndex,
     modules |-> [i \in 1..Len(counts) |->
                    [completed |-> FALSE,
                     resources |-> [k \in 1..counts[i] |-> TemplateResource]]]]

\* clone_template: the copy of the template with the user, the aggregates
\* and every resource reset
clone_template(template, user_id) ==
    [template EXCEPT
       !.user_id = user_id,
       !.is_template = FALSE,
       !.progress_percentage = DefaultProgress,
       !.current_module_index = DefaultModuleIndex,
       !.modules = [i \in DOMAIN template.modules |->
                      [template.modules[i] EXCEPT
                         !.completed = FALSE,
                         !.resources = [k \in DOMAIN template.modules[i].resources |->
                                          [template.modules[i].resources[k] EXCEPT
                                             !.status = "not_started",
                                             !.completed = FALSE,
                                             !.time_spent_seconds = 0,
                                             !.rating = 0]]]]]

\* the seed script inserts a template into the empty collection
SeedTemplate ==
    /\ db = NoRoadmap
    /\ \E counts \in GenShapes : db' = seed_roadmap_templates(counts)
    /\ last' = [op |-> "seed", code |-> 200, auto_completed |-> FALSE]
    /\ UNCHANGED <<variant, now, calls, twin>>

\* POST /templates/{template_id}/clone, a route of the api copy only; an id
\* that finds no template raises the 404 inside the try, sent as a 500
CloneTemplate ==
    /\ variant = "api"
    /\ db # NoRoadmap
    /\ db.is_template
    /\ \E user_id \in Users, found \in BOOLEAN :
          IF found
          THEN /\ db' = clone_template(db, user_id)
               /\ last' = [op |-> "clone", code |-> 200, auto_completed |-> FALSE]
          ELSE /\ db' = db
               /\ last' = [op |-> "clone", code |-> 500, auto_completed |-> FALSE]
    /\ UNCHANGED <<variant, now, calls, twin>>

InitClone ==
    /\ variant \in Variants
    /\ db = NoRoadmap
    /\ last = Idle
    /\ now = FirstInstant
    /\ calls = NoCalls
    /\ twin = NoTwin

NextClone ==
    \/ SeedTemplate
    \/ CloneTemplate

SpecClone == InitClone /\ [][NextClone]_vars

\* C24: every resource of a roadmap document written by generate_roadmap, by
\* clone_template or by a progression operation has one of the five statuses
\* locked, unlocked, in_progress, completed, skipped.
C24_StatusesAreInTheClosedSet ==
    (db # NoRoadmap /\ last.op # "seed") =>
        \A i \in DOMAIN db.modules :
            \A k \in DOMAIN db.modules[i].resources :
                StatusOf(db, i, k) \in ResourceStatus

\* ==== statuses from one stored state to the next ===========================

\* C25: from one stored state to the next the number of completed or
\* skipped resources does not decrease, a completed or skipped resource stays
\* completed or skipped, and a module with is_completed keeps it.
C25_DoneStaysDone ==
    [][/\ DoneCount' >= DoneCount
       /\ \A p \in Positions(db) :
             IsDone(db.modules[p[1]].resources[p[2]])
             => IsDone(db'.modules[p[1]].resources[p[2]])
       /\ \A i \in DOMAIN db.modules :
             db.modules[i].is_completed => db'.modules[i].is_completed]_vars

\* C26: no operation takes a resource from locked straight to completed or
\* skipped.
C26_LockedIsNeverMarkedDone ==
    [][\A p \in Positions(db) :
          StatusOf(db, p[1], p[2]) = "locked"
          => ~IsDone(db'.modules[p[1]].resources[p[2]])]_vars

\* C27: a resource stored with a status other than locked is not stored as
\* locked by the next operation, whichever it is.
C27_NeverLockedAgain ==
    [][\A p \in Positions(db) :
          StatusOf(db, p[1], p[2]) # "locked"
          => StatusOf(db', p[1], p[2]) # "locked"]_vars

\* a successful complete-resource has left a completed resource next to an
\* unlocked one and a locked one
C27_Witness ==
    /\ last.op = "complete" /\ last.code = 200
    /\ \E p, q, r \in Positions(db) :
          /\ StatusOf(db, p[1], p[2]) = "completed"
          /\ StatusOf(db, q[1], q[2]) = "unlocked"
          /\ StatusOf(db, r[1], r[2]) = "locked"

\* ==== a learner who follows the locks ======================================

\* the resources the client shows as open
Available(roadmap) ==
    {p \in Positions(roadmap) :
        StatusOf(roadmap, p[1], p[2]) \in {"unlocked", "in_progress"}}

LearnerComplete ==
    \E p \in Available(db) : Serve("complete", complete_resource(variant, db, p[1], p[2]))

LearnerSkip ==
    \E p \in Available(db) : Serve("skip", skip_resource(variant, db, p[1], p[2]))

LearnerOpen ==
    \E p \in Available(db) : Serve("open", open_resource(db, p[1], p[2]))

NextLearner ==
    \/ LearnerComplete
    \/ LearnerSkip
    \/ LearnerOpen

SpecLearner == Init /\ [][NextLearner]_vars

\* C28: in no state reached by such a learner is some resource locked while
\* no resource is unlocked or in_progress.
C28_LockedResourceCanStillBeReached ==
    (\E p \in Positions(db) : StatusOf(db, p[1], p[2]) = "locked")
        => Available(db) # {}

\* ==== the aggregates under interleaving ====================================

\* the stored aggregates are those the stored modules give
AggregatesAgree(roadmap) ==
    /\ roadmap.progress_percentage = ProgressPercentage(roadmap.modules)
    /\ roadmap.current_module_index = HighestAccessible(roadmap.modules)

\* C29: under every interleaving of requests, a write to a document whose
\* progress_percentage and current_module_index agree with its modules
\* leaves a document in which they agree.
C29_WritesKeepAggregatesInAgreement ==
    [][\A tab \in Tabs :
          (PersistStep(tab) /\ AggregatesAgree(db)) => AggregatesAgree(db')]_vars

\* ==== the two copies side by side ==========================================
\* One roadmap is served by the api copy (`db`), a roadmap generated alike by
\* the app copy (`twin`); both are sent the same requests one after another.
\* `last` keeps the status code of either copy.  The comparison ends with the
\* first request after which the two differ.

\* what a client can read back of a stored roadmap
Observed(roadmap) ==
    [progression |-> Progression(roadmap),
     times |-> [i \in DOMAIN roadmap.modules |->
                  [k \in DOMAIN roadmap.modules[i].resources |->
                     roadmap.modules[i].resources[k].time_spent_seconds]]]

\* the last request had the same success or failure from both copies, and
\* the two stored roadmaps read the same
SameSoFar ==
    /\ (last.code = 200) <=> (last.app_code = 200)
    /\ Observed(db) = Observed(twin)

BothCopies(request) ==
    LET api == Handle("api", db, request)
        app == Handle("app", twin, request)
    IN  /\ SameSoFar
        /\ db' = ApplySet(db, api.set)
        /\ twin' = ApplySet(twin, app.set)
        /\ last' = [op |-> request.op, code |-> api.code,
                    auto_completed |-> api.auto_completed, app_code |-> app.code]
        /\ UNCHANGED <<variant, now, calls>>

CopiesComplete ==
    \E module_id \in ModuleIds : \E resource_id \in ResourceIds(module_id) :
        BothCopies(Request("complete", module_id, resource_id, 0))

CopiesSkip ==
    \E module_id \in ModuleIds : \E resource_id \in ResourceIds(module_id) :
        BothCopies(Request("skip", module_id, resource_id, 0))

CopiesOpen ==
    \E module_id \in ModuleIds : \E resource_id \in ResourceIds(module_id) :
        BothCopies(Request("open", module_id, resource_id, 0))

CopiesUpdateTime ==
    \E module_id \in ModuleIds : \E resource_id \in ResourceIds(module_id) :
      \E time_spent_seconds \in TimeValues :
        BothCopies(Request("update_time", module_id, resource_id, time_spent_seconds))

InitCopies ==
    /\ variant = "api"
    /\ \E counts \in Shapes, total_weeks \in 1..MaxWeeks :
         \E estimated_hours \in EstimatedHours,
            urls \in [1..Len(counts) -> [1..MaxResources -> Urls]] :
            db = GenerateRoadmap(counts, total_weeks, estimated_hours, urls)
    /\ twin = db
    /\ last = [op |-> "generate", code |-> 200, auto_completed |-> FALSE, app_code |-> 200]
    /\ now = FirstInstant
    /\ calls = NoCalls

NextCopies ==
    \/ CopiesComplete
    \/ CopiesSkip
    \/ CopiesOpen
    \/ CopiesUpdateTime

SpecCopies == InitCopies /\ [][NextCopies]_vars

\* C30: sent the same requests from the same roadmap, the two copies answer
\* each request with the same success or failure and store the same
\* statuses, times, flags, progress_percentage and current_module_index.
C30_CopiesAreEquivalent ==
    (last.op # "generate") => SameSoFar

====
